---- MODULE Spec2Model ----
(***************************************************************************)
(* The borrow-request -> loan lifecycle of the library administration      *)
(* (catalog/admin.py): the bulk admin actions on borrow requests and on    *)
(* loans, the admin change form of a borrow request, and the sample-data   *)
(* command that creates the physical copies.                               *)
(*                                                                         *)
(* Time is a clock of ticks, two ticks to a day: timezone.now() is the     *)
(* tick, timezone.now().date() is the day the tick falls in.               *)
(***************************************************************************)
EXTENDS Integers, Sequences, FiniteSets, TLC

\* ---------------------------------------------------------------- bounds
NumRequests == 2
MaxNow == 2
MaxLen == 1
MaxLoans == 2
MaxCopies == 2
NumUsers == 4
NumBooks == 2
MaxRows == 6

\* ------------------------------------------------------- program constants
MinCopies == 2

Admins == {"admin1", "admin2"}
NoAdmin == "NULL"
NoTime == -1
NoDate == -1

RequestIds == 1..NumRequests

RequestStatus == {"PENDING", "APPROVED", "REJECTED", "CANCELLED", "EXPIRED"}
LoanStatus == {"BORROWED", "RETURNED", "OVERDUE"}
BookItemStatus == {"AVAILABLE", "RESERVED", "LOANED", "LOST", "DAMAGED"}

\* ------------------------------------------------------------------ text
Chars == {" ", "a"}

RECURSIVE StringsOfLen(_)
StringsOfLen(n) ==
    IF n = 0 THEN {<<>>}
    ELSE {Append(s, c) : s \in StringsOfLen(n - 1), c \in Chars}

Strings == UNION {StringsOfLen(n) : n \in 0..MaxLen}

IsSpace(c) == c = " "

RECURSIVE LStrip(_)
LStrip(s) == IF s # <<>> /\ IsSpace(Head(s)) THEN LStrip(Tail(s)) ELSE s

RECURSIVE RStrip(_)
RStrip(s) ==
    IF s # <<>> /\ IsSpace(s[Len(s)])
    THEN RStrip(SubSeq(s, 1, Len(s) - 1))
    ELSE s

strip(s) == RStrip(LStrip(s))

\* str.lower() / str.upper().  A word without inner blanks may be kept as one
\* element of the sequence; CaseTable lists <<spelling, lower, upper>>.
CaseTable ==
    { <<"a", "a", "A">>, <<"A", "a", "A">>, <<"b", "b", "B">>, <<"B", "b", "B">>,
      <<"en", "en", "EN">>, <<"EN", "en", "EN">>, <<"En", "en", "EN">>,
      <<"vi", "vi", "VI">>,
      <<"true", "true", "TRUE">>, <<"True", "true", "TRUE">>,
      <<"TRUE", "true", "TRUE">>,
      <<"yes", "yes", "YES">>, <<"Yes", "yes", "YES">>,
      <<"YES", "yes", "YES">>,
      <<"year", "year", "YEAR">>, <<"Year", "year", "YEAR">>,
      <<"YEAR", "year", "YEAR">>,
      <<"month", "month", "MONTH">>, <<"week", "week", "WEEK">>,
      <<"available", "available", "AVAILABLE">>,
      <<"Available", "available", "AVAILABLE">>,
      <<"AVAILABLE", "available", "AVAILABLE">>,
      <<"loaned", "loaned", "LOANED">>, <<"LOANED", "loaned", "LOANED">>,
      <<"borrowed", "borrowed", "BORROWED">> }

lower(s) ==
    [i \in 1..Len(s) |->
        IF \E t \in CaseTable : t[1] = s[i]
        THEN (CHOOSE t \in CaseTable : t[1] = s[i])[2]
        ELSE s[i]]

upper(s) ==
    [i \in 1..Len(s) |->
        IF \E t \in CaseTable : t[1] = s[i]
        THEN (CHOOSE t \in CaseTable : t[1] = s[i])[3]
        ELSE s[i]]

\* needle in haystack
contains(haystack, needle) ==
    \E i \in 1..(Len(haystack) + 1) :
        /\ i + Len(needle) - 1 <= Len(haystack)
        /\ SubSeq(haystack, i, i + Len(needle) - 1) = needle

icontains(haystack, needle) == contains(lower(haystack), lower(needle))

iexact(a, b) == lower(a) = lower(b)

\* str.split(sep): the pieces between the separators, empty pieces included
RECURSIVE split(_, _)
split(s, sep) ==
    IF \E i \in 1..Len(s) : s[i] = sep
    THEN LET i == CHOOSE k \in 1..Len(s) :
                      s[k] = sep /\ \A j \in 1..(k - 1) : s[j] # sep
         IN  <<SubSeq(s, 1, i - 1)>> \o split(SubSeq(s, i + 1, Len(s)), sep)
    ELSE <<s>>

\* sep.join(parts)
RECURSIVE join(_, _)
join(sep, parts) ==
    IF parts = <<>> THEN <<>>
    ELSE IF Len(parts) = 1 THEN parts[1]
    ELSE parts[1] \o sep \o join(sep, Tail(parts))

\* ---------------------------------------------------------------- numbers
Digits == <<"0", "1", "2", "3", "4", "5", "6", "7", "8", "9">>

IsDigit(c) == \E i \in 1..Len(Digits) : Digits[i] = c

DigitValue(c) == (CHOOSE i \in 1..Len(Digits) : Digits[i] = c) - 1

AllDigits(s) == s # <<>> /\ \A i \in 1..Len(s) : IsDigit(s[i])

RECURSIVE DigitsValue(_)
DigitsValue(s) ==
    IF s = <<>> THEN 0
    ELSE 10 * DigitsValue(SubSeq(s, 1, Len(s) - 1)) + DigitValue(s[Len(s)])

\* int(text): <<n>>, or <<>> where Python raises ValueError
int(s) ==
    LET t == strip(s)
    IN  IF AllDigits(t) THEN <<DigitsValue(t)>>
        ELSE IF t # <<>> /\ Head(t) = "-" /\ AllDigits(Tail(t))
        THEN <<0 - DigitsValue(Tail(t))>>
        ELSE IF t # <<>> /\ Head(t) = "+" /\ AllDigits(Tail(t))
        THEN <<DigitsValue(Tail(t))>>
        ELSE <<>>

\* str(n) for an integer
RECURSIVE str(_)
str(n) ==
    IF n < 0 THEN <<"-">> \o str(0 - n)
    ELSE IF n < 10 THEN <<Digits[n + 1]>>
    ELSE str(n \div 10) \o <<Digits[(n % 10) + 1]>>

\* n zero-padded to at least width digits, n >= 0
RECURSIVE zfill(_, _)
zfill(s, width) == IF Len(s) >= width THEN s ELSE zfill(<<"0">> \o s, width)

\* _parse_int: Optional[int] as a sequence of at most one number
parse_int(val) == IF val # <<>> THEN int(val) ELSE <<>>

\* --------------------------------------------------------------- calendar
\* datetime.date as <<year, month, day>>; MINYEAR..MAXYEAR is the range of
\* years a date can have.
MINYEAR == 1
MAXYEAR == 9999

IsLeap(y) == (y % 4 = 0) /\ ((y % 100 # 0) \/ (y % 400 = 0))

\* calendar.monthrange(year, month)[1]
DaysInMonth(y, m) ==
    IF m = 2 THEN (IF IsLeap(y) THEN 29 ELSE 28)
    ELSE IF m \in {4, 6, 9, 11} THEN 30 ELSE 31

\* date(y, m, d) is constructed, or raises ValueError
IsValidDate(y, m, d) ==
    /\ y \in MINYEAR..MAXYEAR
    /\ m \in 1..12
    /\ d \in 1..DaysInMonth(y, m)

DateKey(d) == d[1] * 10000 + d[2] * 100 + d[3]

DateLE(a, b) == DateKey(a) <= DateKey(b)

DateLT(a, b) == DateKey(a) < DateKey(b)

\* d + timedelta(days=1); past date.max it raises OverflowError, given as <<>>
NextDay(d) ==
    IF d[3] < DaysInMonth(d[1], d[2]) THEN <<d[1], d[2], d[3] + 1>>
    ELSE IF d[2] < 12 THEN <<d[1], d[2] + 1, 1>>
    ELSE IF d[1] < MAXYEAR THEN <<d[1] + 1, 1, 1>>
    ELSE <<>>

\* the n-th day after d
RECURSIVE DaysAfter(_, _)
DaysAfter(d, n) == IF n = 0 THEN d ELSE DaysAfter(NextDay(d), n - 1)

\* date.isoformat()
isoformat(d) ==
    zfill(str(d[1]), 4) \o <<"-">> \o zfill(str(d[2]), 2) \o <<"-">>
        \o zfill(str(d[3]), 2)

\* date.fromisoformat(text): <<date>>, or <<>> where it raises ValueError
fromisoformat(s) ==
    IF /\ Len(s) = 10
       /\ s[5] = "-" /\ s[8] = "-"
       /\ AllDigits(SubSeq(s, 1, 4))
       /\ AllDigits(SubSeq(s, 6, 7))
       /\ AllDigits(SubSeq(s, 9, 10))
    THEN LET y == DigitsValue(SubSeq(s, 1, 4))
             m == DigitsValue(SubSeq(s, 6, 7))
             d == DigitsValue(SubSeq(s, 9, 10))
         IN  IF IsValidDate(y, m, d) THEN <<(<<y, m, d>>)>> ELSE <<>>
    ELSE <<>>

\* _parse_date: Optional[date] as a sequence of at most one date
parse_date(val) == IF val # <<>> THEN fromisoformat(val) ELSE <<>>

\* request.POST: a mapping that has the key "rejection_reason" or not
PostData == {<<>>} \cup {[rejection_reason |-> s] : s \in Strings}

PostGet(post, key, default) ==
    IF key \in DOMAIN post THEN post[key] ELSE default

\* ------------------------------------------------------------------ time
Date(t) == t \div 2

Dates == {Date(t) : t \in 0..MaxNow}

\* ----------------------------------------------------------------- state
VARIABLES
    now,        \* timezone.now(), in ticks
    requests,   \* BorrowRequest rows, by id
    items,      \* BookItem rows: a sequence of statuses, by id
    loans,      \* Loan rows: a sequence of records, by id
    messages,   \* the message the last admin action reported
    users,      \* auth User rows: is_active, by id
    books,      \* Book rows, by id, each with the ids of its copies
    view,       \* the GET request a read-only view serves, and its response
    workers     \* the admin actions in flight, one per concurrent request

vars == <<now, requests, items, loans, messages, users, books, view, workers>>

Querysets == SUBSET RequestIds \ {{}}

NoMessage == [level |-> "none", text |-> "none", count |-> 0]

UserIds == 1..NumUsers

BookIds == 1..NumBooks

NoBooks == <<>>

NoView == [name |-> "none"]

NoWorkers == <<>>

NewRequest(to) ==
    [status |-> "PENDING", admin |-> NoAdmin, decision_at |-> NoTime,
     rejection_reason |-> <<>>, requested_to |-> to]

Init ==
    /\ now = 0
    /\ requests = [r \in RequestIds |-> NewRequest((r - 1) % 2)]
    /\ items = <<>>
    /\ loans = <<>>
    /\ messages = NoMessage
    /\ users = [u \in UserIds |-> TRUE]
    /\ books = NoBooks
    /\ view = NoView
    /\ workers = NoWorkers

\* ----------------------------------------------- BorrowRequestAdmin actions
\* approve_selected without the filter on PENDING.
approve_selected_all(user, queryset) ==
    LET Approve(row) == [row EXCEPT !.status = "APPROVED",
                                    !.decision_at = now,
                                    !.admin = user,
                                    !.rejection_reason = <<>>]
    IN  /\ requests' = [r \in RequestIds |->
                        IF r \in queryset THEN Approve(requests[r]) ELSE requests[r]]
        /\ messages' = [level |-> "success", text |-> "Approved",
                        count |-> Cardinality(queryset)]
        /\ UNCHANGED <<now, items, loans, users, books, view, workers>>

approve_selected(user, queryset) ==
    LET pending == {r \in queryset : requests[r].status = "PENDING"}
        Approve(row) == [row EXCEPT !.status = "APPROVED",
                                    !.decision_at = now,
                                    !.admin = user,
                                    !.rejection_reason = <<>>]
        updated == Cardinality(pending)
    IN  /\ requests' = [r \in RequestIds |->
                        IF r \in pending THEN Approve(requests[r]) ELSE requests[r]]
        /\ messages' = [level |-> "success", text |-> "Approved",
                        count |-> updated]
        /\ UNCHANGED <<now, items, loans, users, books, view, workers>>

\* reject_selected testing the reason before it is stripped.
reject_selected_unstripped(user, queryset, post) ==
    LET reason == PostGet(post, "rejection_reason", <<>>)
        pending == {r \in queryset : requests[r].status = "PENDING"}
        Reject(row) == [row EXCEPT !.status = "REJECTED",
                                   !.decision_at = now,
                                   !.admin = user,
                                   !.rejection_reason = strip(reason)]
        updated == Cardinality(pending)
    IN  IF reason = <<>>
        THEN /\ messages' = [level |-> "error", text |-> "ReasonRequired",
                             count |-> 0]
             /\ UNCHANGED <<now, requests, items, loans, users, books, view, workers>>
        ELSE /\ requests' = [r \in RequestIds |->
                        IF r \in pending THEN Reject(requests[r]) ELSE requests[r]]
             /\ messages' = [level |-> "success", text |-> "Rejected",
                             count |-> updated]
             /\ UNCHANGED <<now, items, loans, users, books, view, workers>>

reject_selected(user, queryset, post) ==
    LET reason == strip(PostGet(post, "rejection_reason", <<>>))
        pending == {r \in queryset : requests[r].status = "PENDING"}
        Reject(row) == [row EXCEPT !.status = "REJECTED",
                                   !.decision_at = now,
                                   !.admin = user,
                                   !.rejection_reason = reason]
        updated == Cardinality(pending)
    IN  IF reason = <<>>
        THEN /\ messages' = [level |-> "error", text |-> "ReasonRequired",
                             count |-> 0]
             /\ UNCHANGED <<now, requests, items, loans, users, books, view, workers>>
        ELSE /\ requests' = [r \in RequestIds |->
                        IF r \in pending THEN Reject(requests[r]) ELSE requests[r]]
             /\ messages' = [level |-> "success", text |-> "Rejected",
                             count |-> updated]
             /\ UNCHANGED <<now, items, loans, users, books, view, workers>>

\* mark_selected_expired stamping decision_at as the other two actions do.
mark_selected_expired_decided(queryset) ==
    LET today == Date(now)
        qs == {r \in queryset : /\ requests[r].status = "PENDING"
                                /\ requests[r].requested_to < today}
        Expire(row) == [row EXCEPT !.status = "EXPIRED",
                                   !.decision_at = now]
        updated == Cardinality(qs)
    IN  /\ requests' = [r \in RequestIds |->
                        IF r \in qs THEN Expire(requests[r]) ELSE requests[r]]
        /\ messages' = IF updated # 0
                       THEN [level |-> "success", text |-> "Expired",
                             count |-> updated]
                       ELSE [level |-> "info", text |-> "NoneExpired",
                             count |-> 0]
        /\ UNCHANGED <<now, items, loans, users, books, view, workers>>

mark_selected_expired(queryset) ==
    LET today == Date(now)
        qs == {r \in queryset : /\ requests[r].status = "PENDING"
                                /\ requests[r].requested_to < today}
        Expire(row) == [row EXCEPT !.status = "EXPIRED"]
        updated == Cardinality(qs)
    IN  /\ requests' = [r \in RequestIds |->
                        IF r \in qs THEN Expire(requests[r]) ELSE requests[r]]
        /\ messages' = IF updated # 0
                       THEN [level |-> "success", text |-> "Expired",
                             count |-> updated]
                       ELSE [level |-> "info", text |-> "NoneExpired",
                             count |-> 0]
        /\ UNCHANGED <<now, items, loans, users, books, view, workers>>

\* The admin change form of a BorrowRequest: every field of the fieldsets
\* that is not in readonly_fields is editable; the form is saved here with a
\* new status and the other fields as they were.
change_form_save(r, status) ==
    /\ requests' = [requests EXCEPT ![r].status = status]
    /\ messages' = [level |-> "success", text |-> "Changed", count |-> 1]
    /\ UNCHANGED <<now, items, loans, users, books, view, workers>>

\* The user's cancel view (library_management/views.py, routed in urls.py).
cancel_borrow_request(r) ==
    /\ requests[r].status = "PENDING"
    /\ requests' = [requests EXCEPT ![r].status = "CANCELLED"]
    /\ UNCHANGED <<now, items, loans, messages, users, books, view, workers>>

\* ------------------------------------------------------ sample-data command
\* create_sample_data: a book that get_or_create creates gets
\* random.randint(2, 5) copies, each AVAILABLE; an existing book gets none.
create_sample_data ==
    /\ IF items = <<>>
       THEN \E n \in MinCopies..MaxCopies :
                items' = [j \in 1..n |-> "AVAILABLE"]
       ELSE items' = items
    /\ UNCHANGED <<now, requests, loans, messages, users, books, view, workers>>

\* ------------------------------------------------------------ loan creation
\* A Loan is created for an approved request against an available copy that
\* has no active loan; it is due on the request's requested_to date.
ActiveLoans(i) ==
    {l \in DOMAIN loans : loans[l].book_item = i /\ loans[l].status = "BORROWED"}

create_loan(r, i) ==
    /\ Len(loans) < MaxLoans
    /\ requests[r].status = "APPROVED"
    /\ i \in DOMAIN items
    /\ items[i] = "AVAILABLE"
    /\ ActiveLoans(i) = {}
    /\ loans' = Append(loans, [request |-> r, book_item |-> i,
                               status |-> "BORROWED",
                               due_date |-> requests[r].requested_to,
                               returned_at |-> NoDate])
    /\ UNCHANGED <<now, requests, items, messages, users, books, view, workers>>

\* ------------------------------------------------------- LoanAdmin actions
LoanQuerysets == SUBSET (DOMAIN loans) \ {{}}

\* mark_as_returned writing a status that is no Loan choice.
mark_as_returned_typo(queryset) ==
    LET Return(row) == [row EXCEPT !.status = "RETURN",
                                   !.returned_at = Date(now)]
    IN  /\ loans' = [l \in DOMAIN loans |->
                     IF l \in queryset THEN Return(loans[l]) ELSE loans[l]]
        /\ messages' = [level |-> "success", text |-> "Returned",
                        count |-> Cardinality(queryset)]
        /\ UNCHANGED <<now, requests, items, users, books, view, workers>>

\* mark_as_returned writing the wrong status constant.
mark_as_returned_reopen(queryset) ==
    LET Return(row) == [row EXCEPT !.status = "BORROWED",
                                   !.returned_at = Date(now)]
    IN  /\ loans' = [l \in DOMAIN loans |->
                     IF l \in queryset THEN Return(loans[l]) ELSE loans[l]]
        /\ messages' = [level |-> "success", text |-> "Returned",
                        count |-> Cardinality(queryset)]
        /\ UNCHANGED <<now, requests, items, users, books, view, workers>>

\* mark_as_returned that also puts the returned copies back on the shelf.
mark_as_returned_release(queryset) ==
    LET Return(row) == [row EXCEPT !.status = "RETURNED",
                                   !.returned_at = Date(now)]
        updated == Cardinality(queryset)
    IN  /\ loans' = [l \in DOMAIN loans |->
                     IF l \in queryset THEN Return(loans[l]) ELSE loans[l]]
        /\ items' = [i \in DOMAIN items |->
                     IF \E l \in queryset : loans[l].book_item = i
                     THEN "AVAILABLE" ELSE items[i]]
        /\ messages' = [level |-> "success", text |-> "Returned",
                        count |-> updated]
        /\ UNCHANGED <<now, requests, users, books, view, workers>>

mark_as_returned(queryset) ==
    LET Return(row) == [row EXCEPT !.status = "RETURNED",
                                   !.returned_at = Date(now)]
        updated == Cardinality(queryset)
    IN  /\ loans' = [l \in DOMAIN loans |->
                     IF l \in queryset THEN Return(loans[l]) ELSE loans[l]]
        /\ messages' = [level |-> "success", text |-> "Returned",
                        count |-> updated]
        /\ UNCHANGED <<now, requests, items, users, books, view, workers>>

\* mark_overdue_due without the filter on BORROWED.
mark_overdue_due_any(queryset) ==
    LET today == Date(now)
        qs == {l \in queryset : loans[l].due_date < today}
        Overdue(row) == [row EXCEPT !.status = "OVERDUE"]
        updated == Cardinality(qs)
    IN  /\ loans' = [l \in DOMAIN loans |->
                     IF l \in qs THEN Overdue(loans[l]) ELSE loans[l]]
        /\ messages' = IF updated # 0
                       THEN [level |-> "success", text |-> "Overdue",
                             count |-> updated]
                       ELSE [level |-> "info", text |-> "NoneOverdue",
                             count |-> 0]
        /\ UNCHANGED <<now, requests, items, users, books, view, workers>>

\* mark_overdue_due counting a loan due today as past due.
mark_overdue_due_lte(queryset) ==
    LET today == Date(now)
        qs == {l \in queryset : /\ loans[l].due_date <= today
                                /\ loans[l].status = "BORROWED"}
        Overdue(row) == [row EXCEPT !.status = "OVERDUE"]
        updated == Cardinality(qs)
    IN  /\ loans' = [l \in DOMAIN loans |->
                     IF l \in qs THEN Overdue(loans[l]) ELSE loans[l]]
        /\ messages' = IF updated # 0
                       THEN [level |-> "success", text |-> "Overdue",
                             count |-> updated]
                       ELSE [level |-> "info", text |-> "NoneOverdue",
                             count |-> 0]
        /\ UNCHANGED <<now, requests, items, users, books, view, workers>>

mark_overdue_due(queryset) ==
    LET today == Date(now)
        qs == {l \in queryset : /\ loans[l].due_date < today
                                /\ loans[l].status = "BORROWED"}
        Overdue(row) == [row EXCEPT !.status = "OVERDUE"]
        updated == Cardinality(qs)
    IN  /\ loans' = [l \in DOMAIN loans |->
                     IF l \in qs THEN Overdue(loans[l]) ELSE loans[l]]
        /\ messages' = IF updated # 0
                       THEN [level |-> "success", text |-> "Overdue",
                             count |-> updated]
                       ELSE [level |-> "info", text |-> "NoneOverdue",
                             count |-> 0]
        /\ UNCHANGED <<now, requests, items, users, books, view, workers>>

Tick ==
    /\ now < MaxNow
    /\ now' = now + 1
    /\ UNCHANGED <<requests, items, loans, messages, users, books, view, workers>>

\* ------------------------------------------------------ UserAdmin actions
UserQuerysets == SUBSET UserIds \ {{}}

activate_users(user, queryset) ==
    LET updated == Cardinality(queryset)
    IN  /\ users[user]
        /\ users' = [u \in UserIds |-> IF u \in queryset THEN TRUE ELSE users[u]]
        /\ messages' = [level |-> "success", text |-> "Activated",
                        count |-> updated]
        /\ UNCHANGED <<now, requests, items, loans, books, view, workers>>

\* deactivate_users without the exclusion of the acting user.
deactivate_users_self(user, queryset) ==
    LET updated == Cardinality(queryset)
    IN  /\ users[user]
        /\ users' = [u \in UserIds |-> IF u \in queryset THEN FALSE ELSE users[u]]
        /\ messages' = [level |-> "success", text |-> "Deactivated",
                        count |-> updated, skipped |-> 0]
        /\ UNCHANGED <<now, requests, items, loans, books, view, workers>>

deactivate_users(user, queryset) ==
    LET qs == queryset \ {user}
        skipped == Cardinality(queryset) - Cardinality(qs)
        updated == Cardinality(qs)
    IN  /\ users[user]
        /\ users' = [u \in UserIds |-> IF u \in qs THEN FALSE ELSE users[u]]
        /\ messages' = [level |-> "success", text |-> "Deactivated",
                        count |-> updated, skipped |-> skipped]
        /\ UNCHANGED <<now, requests, items, loans, books, view, workers>>

\* ------------------------------------------------------------ book export
\* request.GET: a mapping from parameter names to texts.  GetOr is the chain
\* params.get(k1) or params.get(k2) or ... or "": the first value that is
\* neither missing nor empty.
RECURSIVE GetOr(_, _)
GetOr(params, keys) ==
    IF keys = <<>> THEN <<>>
    ELSE IF Head(keys) \in DOMAIN params /\ params[Head(keys)] # <<>>
    THEN params[Head(keys)]
    ELSE GetOr(params, Tail(keys))

\* rows of a query in id order
RECURSIVE AllRows(_)
AllRows(n) == IF n = 0 THEN <<>> ELSE Append(AllRows(n - 1), n)

\* qs.filter(items__status=s): the join gives a row per matching copy
RECURSIVE JoinItemsStatus(_, _)
JoinItemsStatus(rows, s) ==
    IF rows = <<>> THEN <<>>
    ELSE LET b == Head(rows)
             matching == SelectSeq(books[b].items, LAMBDA i : items[i] = s)
         IN  [k \in 1..Len(matching) |-> b] \o JoinItemsStatus(Tail(rows), s)

\* the rows without the repetitions of a row
RECURSIVE FirstOccurrences(_)
FirstOccurrences(rows) ==
    IF rows = <<>> THEN <<>>
    ELSE LET init == FirstOccurrences(SubSeq(rows, 1, Len(rows) - 1))
             last == rows[Len(rows)]
         IN  IF \E i \in 1..Len(init) : init[i] = last
             THEN init ELSE Append(init, last)

\* a queryset whose distinct() keeps the repeated rows.
distinct_keep(rows) == rows

\* qs.distinct()
distinct(rows) == FirstOccurrences(rows)

allowed_sorts ==
    { <<"title">>, <<"-title">>, <<"created_at">>, <<"-created_at">>,
      <<"publish_year">>, <<"-publish_year">> }

\* a is strictly before b under the sort; the order of title is the
\* database's collation and the place of NULL years is the database's, so
\* neither orders two rows here
Before(a, b, sort) ==
    IF sort = <<"created_at">>
    THEN DateLT(books[a].created_at, books[b].created_at)
    ELSE IF sort = <<"-created_at">>
    THEN DateLT(books[b].created_at, books[a].created_at)
    ELSE IF sort \in {<<"publish_year">>, <<"-publish_year">>}
            /\ books[a].publish_year # <<>> /\ books[b].publish_year # <<>>
    THEN IF sort = <<"publish_year">>
         THEN books[a].publish_year[1] < books[b].publish_year[1]
         ELSE books[b].publish_year[1] < books[a].publish_year[1]
    ELSE FALSE

\* qs.order_by(sort): the orders of the rows the database may return
order_by(rows, sort) ==
    { p \in [1..Len(rows) -> {rows[i] : i \in 1..Len(rows)}] :
        /\ \A x \in 1..Len(rows) :
               Cardinality({i \in 1..Len(rows) : p[i] = rows[x]})
                   = Cardinality({i \in 1..Len(rows) : rows[i] = rows[x]})
        /\ \A i, j \in 1..Len(rows) : i < j => ~Before(p[j], p[i], sort) }

\* build_book_queryset: the orders of rows the database may return
build_book_queryset(params, include_items) ==
    LET q == strip(GetOr(params, <<"q">>))
        category_id == parse_int(GetOr(params,
            <<"category_id", "categories__id__exact", "category__id__exact">>))
        author_id == parse_int(GetOr(params,
            <<"author_id", "authors__id__exact", "author__id__exact">>))
        publisher_id == parse_int(GetOr(params,
            <<"publisher_id", "publisher__id__exact">>))
        y_from == parse_int(GetOr(params,
            <<"publish_year_from", "publish_year__gte", "publish_year">>))
        y_to == parse_int(GetOr(params,
            <<"publish_year_to", "publish_year__lte", "publish_year">>))
        lang == strip(GetOr(params,
            <<"language", "language_code", "language_code__exact">>))
        item_status == upper(strip(GetOr(params,
            <<"item_status", "items__status", "items__status__exact">>)))
        c_from == parse_date(strip(GetOr(params,
            <<"created_from", "created_at__date__gte">>)))
        c_to == parse_date(strip(GetOr(params,
            <<"created_to", "created_at__date__lte">>)))
        sort0 == strip(GetOr(params, <<"sort">>))
        sort == IF sort0 \in allowed_sorts THEN sort0 ELSE <<"title">>
        qs0 == AllRows(NumBooks)
        qs1 == IF q # <<>>
               THEN SelectSeq(qs0, LAMBDA b :
                        \/ icontains(books[b].title, q)
                        \/ icontains(books[b].description, q)
                        \/ icontains(books[b].isbn13, q))
               ELSE qs0
        qs2 == IF category_id # <<>>
               THEN SelectSeq(qs1, LAMBDA b : category_id[1] \in books[b].categories)
               ELSE qs1
        qs3 == IF author_id # <<>>
               THEN SelectSeq(qs2, LAMBDA b : author_id[1] \in books[b].authors)
               ELSE qs2
        qs4 == IF publisher_id # <<>>
               THEN SelectSeq(qs3, LAMBDA b : books[b].publisher = publisher_id)
               ELSE qs3
        qs5 == IF y_from # <<>>
               THEN SelectSeq(qs4, LAMBDA b :
                        /\ books[b].publish_year # <<>>
                        /\ books[b].publish_year[1] >= y_from[1])
               ELSE qs4
        qs6 == IF y_to # <<>>
               THEN SelectSeq(qs5, LAMBDA b :
                        /\ books[b].publish_year # <<>>
                        /\ books[b].publish_year[1] <= y_to[1])
               ELSE qs5
        qs7 == IF lang # <<>>
               THEN SelectSeq(qs6, LAMBDA b : iexact(books[b].language_code, lang))
               ELSE qs6
        qs8 == IF item_status \in {<<s>> : s \in BookItemStatus}
               THEN JoinItemsStatus(qs7, item_status[1])
               ELSE qs7
        qs9 == IF c_from # <<>>
               THEN SelectSeq(qs8, LAMBDA b : DateLE(c_from[1], books[b].created_at))
               ELSE qs8
        qs10 == IF c_to # <<>>
                THEN SelectSeq(qs9, LAMBDA b : DateLE(books[b].created_at, c_to[1]))
                ELSE qs9
    IN  order_by(distinct(qs10), sort)

DEFAULT_BOOK_COLUMNS ==
    << <<"id">>, <<"title">>, <<"authors">>, <<"categories">>, <<"isbn13">>,
       <<"publisher">>, <<"publisher_founded_year">>, <<"publish_year">>,
       <<"language">>, <<"cover_url">>, <<"total_items">>,
       <<"available_items">>, <<"reserved_items">>, <<"loaned_items">>,
       <<"lost_items">>, <<"damaged_items">>, <<"total_loans">>,
       <<"last_loan_date">>, <<"avg_rating">>, <<"total_favorites">>,
       <<"created_at">> >>

\* the elements of a set of numbers in ascending order
RECURSIVE Ascending(_)
Ascending(S) ==
    IF S = {} THEN <<>>
    ELSE LET m == CHOOSE x \in S : \A y \in S : x <= y
         IN  <<m>> \o Ascending(S \ {m})

CountItems(b, s) == Len(SelectSeq(books[b].items, LAMBDA i : items[i] = s))

\* the loans of the copies of book b
BookLoans(b) ==
    SelectSeq([l \in 1..Len(loans) |-> l], LAMBDA l :
        \E k \in 1..Len(books[b].items) : books[b].items[k] = loans[l].book_item)

\* Max("...loans__approved_from") as an ISO text, "" without loans
LastLoanDate(b) ==
    IF BookLoans(b) = <<>> THEN <<>>
    ELSE LET ls == {BookLoans(b)[k] : k \in 1..Len(BookLoans(b))}
             m == CHOOSE l \in ls :
                      \A o \in ls : DateLE(loans[o].approved_from, loans[l].approved_from)
         IN  isoformat(loans[m].approved_from)

\* _book_cell_value; a cell is given by its text.  Ratings, favourites and
\* the publisher's founding year have no rows here.
book_cell_value(b, key) ==
    IF key = <<"id">> THEN str(b)
    ELSE IF key = <<"title">> THEN books[b].title
    ELSE IF key = <<"authors">>
    THEN join(<<",", " ">>, [k \in 1..Cardinality(books[b].authors) |->
                 <<"author">> \o str(Ascending(books[b].authors)[k])])
    ELSE IF key = <<"categories">>
    THEN join(<<",", " ">>, [k \in 1..Cardinality(books[b].categories) |->
                 <<"category">> \o str(Ascending(books[b].categories)[k])])
    ELSE IF key = <<"isbn13">> THEN books[b].isbn13
    ELSE IF key = <<"publisher">>
    THEN (IF books[b].publisher # <<>>
          THEN <<"publisher">> \o str(books[b].publisher[1]) ELSE <<>>)
    ELSE IF key = <<"publisher_founded_year">> THEN <<>>
    ELSE IF key = <<"publish_year">>
    THEN (IF books[b].publish_year # <<>> /\ books[b].publish_year[1] # 0
          THEN str(books[b].publish_year[1]) ELSE <<>>)
    ELSE IF key = <<"language">> THEN books[b].language_code
    ELSE IF key = <<"cover_url">> THEN books[b].cover_url
    ELSE IF key = <<"total_items">> THEN str(Len(books[b].items))
    ELSE IF key = <<"available_items">> THEN str(CountItems(b, "AVAILABLE"))
    ELSE IF key = <<"reserved_items">> THEN str(CountItems(b, "RESERVED"))
    ELSE IF key = <<"loaned_items">> THEN str(CountItems(b, "LOANED"))
    ELSE IF key = <<"lost_items">> THEN str(CountItems(b, "LOST"))
    ELSE IF key = <<"damaged_items">> THEN str(CountItems(b, "DAMAGED"))
    ELSE IF key = <<"total_favorites">> THEN str(0)
    ELSE IF key = <<"authors_count">> THEN str(Cardinality(books[b].authors))
    ELSE IF key = <<"categories_count">>
    THEN str(Cardinality(books[b].categories))
    ELSE IF key = <<"total_loans">> THEN str(Len(BookLoans(b)))
    ELSE IF key = <<"avg_rating">> THEN <<>>
    ELSE IF key = <<"last_loan_date">> THEN LastLoanDate(b)
    ELSE IF key = <<"created_at">>
    THEN isoformat(books[b].created_at) \o <<" ", "00:00:00">>
    ELSE <<>>

\* col.replace("_", " ").title() for a column name kept as one word
TitleTable ==
    { <<"id", "Id">>, <<"title", "Title">>, <<"authors", "Authors">>,
      <<"categories", "Categories">>, <<"isbn13", "Isbn13">>,
      <<"publisher", "Publisher">>,
      <<"publisher_founded_year", "Publisher Founded Year">>,
      <<"publish_year", "Publish Year">>, <<"language", "Language">>,
      <<"cover_url", "Cover Url">>, <<"total_items", "Total Items">>,
      <<"available_items", "Available Items">>,
      <<"reserved_items", "Reserved Items">>,
      <<"loaned_items", "Loaned Items">>, <<"lost_items", "Lost Items">>,
      <<"damaged_items", "Damaged Items">>, <<"total_loans", "Total Loans">>,
      <<"last_loan_date", "Last Loan Date">>, <<"avg_rating", "Avg Rating">>,
      <<"total_favorites", "Total Favorites">>, <<"created_at", "Created At">>,
      <<"bogus", "Bogus">>, <<"x", "X">> }

header(col) ==
    [i \in 1..Len(col) |->
        IF \E t \in TitleTable : t[1] = col[i]
        THEN (CHOOSE t \in TitleTable : t[1] = col[i])[2]
        ELSE col[i]]

item_headers ==
    << <<"Book ID">>, <<"Title">>, <<"Barcode">>, <<"Status">>, <<"Location">>,
       <<"Created At">>, <<"Currently Loaned">>, <<"Due Date">>,
       <<"Loan Status">> >>

\* get_status_display() of a choice field
get_status_display(status) == <<status>>

\* the loans of copy i that the Items sheet takes as its current loan
CurrentLoans(i) ==
    {l \in DOMAIN loans : loans[l].book_item = i /\ loans[l].status = "BORROWED"}

\* the row of copy i of book b; next(...) takes the first current loan
item_row(b, i) ==
    LET current == IF CurrentLoans(i) = {} THEN <<>>
                   ELSE <<CHOOSE l \in CurrentLoans(i) :
                              \A o \in CurrentLoans(i) : l <= o>>
    IN  << str(b), books[b].title, <<"BK">> \o str(i),
           get_status_display(items[i]), <<>>, <<>>,
           IF current # <<>> THEN <<"Yes">> ELSE <<"No">>,
           IF current # <<>> THEN isoformat(loans[current[1]].due_date) ELSE <<>>,
           IF current # <<>> THEN get_status_display(loans[current[1]].status)
                             ELSE <<>> >>

RECURSIVE item_rows(_)
item_rows(qs) ==
    IF qs = <<>> THEN <<>>
    ELSE [k \in 1..Len(books[Head(qs)].items) |->
             item_row(Head(qs), books[Head(qs)].items[k])]
         \o item_rows(Tail(qs))

NoWorkbook == [sheets |-> <<>>]

\* render_books_workbook: the sheets by name, each a sequence of rows
render_books_workbook(qs, columns, include_items) ==
    LET cols == IF columns # <<>> THEN columns ELSE DEFAULT_BOOK_COLUMNS
        headers == [c \in 1..Len(cols) |-> header(cols[c])]
        rows == [r \in 1..Len(qs) |->
                    [c \in 1..Len(cols) |-> book_cell_value(qs[r], cols[c])]]
    IN  [sheets |-> IF include_items THEN <<"Books", "Items">> ELSE <<"Books">>,
         Books |-> <<headers>> \o rows,
         Items |-> IF include_items THEN <<item_headers>> \o item_rows(qs)
                   ELSE <<>>]

\* the names in the 'columns' parameter, neither trimmed nor dropped.
requested_columns_raw(params) ==
    LET columns_param == strip(GetOr(params, <<"columns">>))
    IN  IF columns_param # <<>> THEN split(columns_param, ",") ELSE <<>>

\* the names in the 'columns' parameter
requested_columns(params) ==
    LET columns_param == strip(GetOr(params, <<"columns">>))
        pieces == split(columns_param, ",")
    IN  IF columns_param # <<>>
        THEN SelectSeq([k \in 1..Len(pieces) |-> strip(pieces[k])],
                       LAMBDA c : c # <<>>)
        ELSE <<>>

\* export_books_excel that takes any non-empty include_items as a yes.
requested_items_any(params) == GetOr(params, <<"include_items">>) # <<>>

requested_items(params) ==
    lower(GetOr(params, <<"include_items">>)) \in {<<"1">>, <<"true">>, <<"yes">>}

export_books_excel ==
    /\ view.name = "export_books_excel"
    /\ view.wb = NoWorkbook
    /\ LET include_items == requested_items(view.GET)
           columns == requested_columns(view.GET)
           base == strip(GetOr(view.GET, <<"filename">>))
       IN  \E qs \in build_book_queryset(view.GET, include_items) :
               view' = [view EXCEPT
                   !.qs = qs,
                   !.wb = render_books_workbook(qs, columns, include_items),
                   !.filename = (IF base # <<>> THEN base
                                 ELSE <<"books_export_">> \o str(now))
                                \o <<".xlsx">>]
    /\ UNCHANGED <<now, requests, items, loans, messages, users, books, workers>>

\* ------------------------------------------- admin actions run concurrently
\* Each admin's POST is served by its own worker.  A worker calls the action,
\* which reads the reason and timezone.now(); the database then runs its
\* UPDATE ... WHERE status = 'PENDING' as one statement; the worker then
\* adds the message to its own response.
Worker(action, user, queryset, post) ==
    [action |-> action, user |-> user, queryset |-> queryset, post |-> post,
     pc |-> "called", reason |-> <<>>, decision_at |-> NoTime,
     updated |-> 0, message |-> NoMessage]

action_call(w) ==
    /\ w \in DOMAIN workers
    /\ workers[w].pc = "called"
    /\ LET reason == IF workers[w].action = "reject_selected"
                     THEN strip(PostGet(workers[w].post, "rejection_reason", <<>>))
                     ELSE <<>>
       IN  IF workers[w].action = "reject_selected" /\ reason = <<>>
           THEN workers' = [workers EXCEPT
                    ![w].message = [level |-> "error", text |-> "ReasonRequired",
                                    count |-> 0],
                    ![w].pc = "done"]
           ELSE workers' = [workers EXCEPT
                    ![w].reason = reason,
                    ![w].decision_at = now,
                    ![w].pc = "update"]
    /\ UNCHANGED <<now, requests, items, loans, messages, users, books, view>>

\* an UPDATE without the filter on PENDING.
action_update_all(w) ==
    /\ w \in DOMAIN workers
    /\ workers[w].pc = "update"
    /\ requests' = [r \in RequestIds |->
           IF r \in workers[w].queryset
           THEN [requests[r] EXCEPT
                    !.status = IF workers[w].action = "approve_selected"
                               THEN "APPROVED" ELSE "REJECTED",
                    !.decision_at = workers[w].decision_at,
                    !.admin = workers[w].user,
                    !.rejection_reason = workers[w].reason]
           ELSE requests[r]]
    /\ workers' = [workers EXCEPT
           ![w].updated = Cardinality(workers[w].queryset),
           ![w].pc = "message"]
    /\ UNCHANGED <<now, items, loans, messages, users, books, view>>

action_update(w) ==
    /\ w \in DOMAIN workers
    /\ workers[w].pc = "update"
    /\ LET pending == {r \in workers[w].queryset : requests[r].status = "PENDING"}
       IN  /\ requests' = [r \in RequestIds |->
                  IF r \in pending
                  THEN [requests[r] EXCEPT
                           !.status = IF workers[w].action = "approve_selected"
                                      THEN "APPROVED" ELSE "REJECTED",
                           !.decision_at = workers[w].decision_at,
                           !.admin = workers[w].user,
                           !.rejection_reason = workers[w].reason]
                  ELSE requests[r]]
           /\ workers' = [workers EXCEPT
                  ![w].updated = Cardinality(pending),
                  ![w].pc = "message"]
    /\ UNCHANGED <<now, items, loans, messages, users, books, view>>

action_message(w) ==
    /\ w \in DOMAIN workers
    /\ workers[w].pc = "message"
    /\ workers' = [workers EXCEPT
           ![w].message = [level |-> "success",
                           text |-> IF workers[w].action = "approve_selected"
                                    THEN "Approved" ELSE "Rejected",
                           count |-> workers[w].updated],
           ![w].pc = "done"]
    /\ UNCHANGED <<now, requests, items, loans, messages, users, books, view>>

\* ---------------------------------------------------------- specifications
Approve == \E u \in Admins, q \in Querysets : approve_selected(u, q)
Reject == \E u \in Admins, q \in Querysets, p \in PostData :
              reject_selected(u, q, p)
Expire == \E q \in Querysets : mark_selected_expired(q)
ChangeForm == \E r \in RequestIds, s \in RequestStatus : change_form_save(r, s)
Cancel == \E r \in RequestIds : cancel_borrow_request(r)

SampleData == create_sample_data
CreateLoan == \E r \in RequestIds, i \in DOMAIN items : create_loan(r, i)
Returned == \E q \in LoanQuerysets : mark_as_returned(q)
Overdue == \E q \in LoanQuerysets : mark_overdue_due(q)

\* The loan desk: one admin approves, copies are created, loans are made
\* and tracked to return or overdue.
ApproveByOne == approve_selected("admin1", RequestIds)

NextLoanActions ==
    Tick \/ ApproveByOne \/ SampleData \/ CreateLoan \/ Returned \/ Overdue

SpecLoanActions == Init /\ [][NextLoanActions]_vars

NextActions ==
    \/ Tick \/ Approve \/ Reject \/ Expire
    \/ SampleData \/ CreateLoan \/ Returned \/ Overdue

SpecActions == Init /\ [][NextActions]_vars

\* Everything that acts on a borrow request: the bulk actions, the change
\* form and the user's cancel view.
Next == Tick \/ Approve \/ Reject \/ Expire \/ ChangeForm \/ Cancel

\* The lifecycle from approval to loan, with the change form at hand.
NextLifecycle ==
    Tick \/ ApproveByOne \/ ChangeForm \/ Cancel \/ SampleData \/ CreateLoan

SpecLifecycle == Init /\ [][NextLifecycle]_vars

Spec == Init /\ [][Next]_vars

NextRequestActions == Tick \/ Approve \/ Reject \/ Expire

SpecRequestActions == Init /\ [][NextRequestActions]_vars

\* The admin site with copies of every status on the shelves: request 2 is
\* PENDING and the other requests are approved; request 1 has a BORROWED
\* loan on each of the first MaxLoans copies, due on its to-date.
ApprovedRequest(to) ==
    [status |-> "APPROVED", admin |-> "admin1", decision_at |-> 0,
     rejection_reason |-> <<>>, requested_to |-> to]

\* The statuses in the order status_colored lists them, and the shelves:
\* copy i has the status k places after the i-th, for any k.
StatusColors == <<"AVAILABLE", "RESERVED", "LOANED", "LOST", "DAMAGED">>

Shelves ==
    { [i \in 1..MaxCopies |->
          StatusColors[((i + k) % Len(StatusColors)) + 1]] :
      k \in 1..Len(StatusColors) }

InitItemFrame ==
    /\ now = 0
    /\ requests = [r \in RequestIds |->
                      IF r = 2 THEN NewRequest(0) ELSE ApprovedRequest(0)]
    /\ items \in Shelves
    /\ loans = [l \in 1..MaxLoans |->
                   [request |-> 1, book_item |-> ((l - 1) % MaxCopies) + 1,
                    status |-> "BORROWED", due_date |-> 0,
                    returned_at |-> NoDate]]
    /\ messages = NoMessage
    /\ users = [u \in UserIds |-> TRUE]
    /\ books = NoBooks
    /\ view = NoView
    /\ workers = NoWorkers

NextItemFrame == Tick \/ Approve \/ Reject \/ Expire \/ Returned \/ Overdue

SpecItemFrame == InitItemFrame /\ [][NextItemFrame]_vars

Activate == \E u \in UserIds, q \in UserQuerysets : activate_users(u, q)
Deactivate == \E u \in UserIds, q \in UserQuerysets : deactivate_users(u, q)

\* The user changelist: staff activate and deactivate accounts.
NextUsers == Activate \/ Deactivate

SpecUsers == Init /\ [][NextUsers]_vars

\* --------------------------------------------------- the export's inputs
\* Book rows as the admin may have entered them
BookRowSeq ==
    << [title |-> <<"a", "B">>, description |-> <<"c">>, isbn13 |-> <<>>,
       categories |-> {1}, authors |-> {1}, publisher |-> <<1>>,
       publish_year |-> <<9>>, language_code |-> <<"en">>,
       cover_url |-> <<>>, created_at |-> <<2024, 12, 31>>],
      [title |-> <<"b">>, description |-> <<"A">>, isbn13 |-> <<"1">>,
       categories |-> {1, 2}, authors |-> {2}, publisher |-> <<2>>,
       publish_year |-> <<10>>, language_code |-> <<"EN">>,
       cover_url |-> <<>>, created_at |-> <<2025, 1, 1>>],
      [title |-> <<"c">>, description |-> <<>>, isbn13 |-> <<"2">>,
       categories |-> {}, authors |-> {}, publisher |-> <<>>,
       publish_year |-> <<>>, language_code |-> <<"vi">>,
       cover_url |-> <<>>, created_at |-> <<2025, 1, 2>>] >>

BookRows == {BookRowSeq[k] : k \in 1..Len(BookRowSeq)}

\* the books with their copies: owner[i] is the book of copy i
Catalogue(rows, owner) ==
    [b \in BookIds |->
        [title |-> rows[b].title, description |-> rows[b].description,
         isbn13 |-> rows[b].isbn13, categories |-> rows[b].categories,
         authors |-> rows[b].authors, publisher |-> rows[b].publisher,
         publish_year |-> rows[b].publish_year,
         language_code |-> rows[b].language_code,
         cover_url |-> rows[b].cover_url, created_at |-> rows[b].created_at,
         items |-> Ascending({i \in DOMAIN owner : owner[i] = b})]]

\* the names of each filter, the name the export documents first
FilterNames ==
    << <<"q">>,
       <<"category_id", "categories__id__exact", "category__id__exact">>,
       <<"author_id", "authors__id__exact", "author__id__exact">>,
       <<"publisher_id", "publisher__id__exact">>,
       <<"publish_year_from", "publish_year__gte", "publish_year">>,
       <<"publish_year_to", "publish_year__lte", "publish_year">>,
       <<"language", "language_code", "language_code__exact">>,
       <<"item_status", "items__status", "items__status__exact">>,
       <<"created_from", "created_at__date__gte">>,
       <<"created_to", "created_at__date__lte">>,
       <<"sort">> >>

\* the texts a client sends for filter f: two well-formed ones first, then
\* a malformed and an empty one
FilterValues(f) ==
    IF f = 1 THEN << <<"a">>, <<" ", "B", " ">>, <<"1">>, <<" ">> >>
    ELSE IF f \in 2..4
    THEN << <<"1">>, <<" ", "2", " ">>, <<"x">>, <<>> >>
    ELSE IF f \in 5..6
    THEN << <<"9">>, <<"1", "0">>, <<"1", "x">>, <<>> >>
    ELSE IF f = 7 THEN << <<"EN">>, <<" ", "vi">>, <<"zz">>, <<" ">> >>
    ELSE IF f = 8
    THEN << <<"available">>, <<" ", "LOANED", " ">>, <<"borrowed">>, <<>> >>
    ELSE IF f \in 9..10
    THEN << isoformat(<<2024, 12, 31>>), <<" ">> \o isoformat(<<2025, 1, 1>>),
            <<"2", "0", "2", "5", "-", "0", "2", "-", "3", "0">>, <<>> >>
    ELSE << <<"-created_at">>, <<"publish_year">>, <<"bogus">>, <<"title">> >>

\* request.GET with one filter parameter, with two names of one filter, or
\* with two filters by their first names and well-formed values
FilterRequests ==
    {<<>>}
    \cup UNION { { [n \in {FilterNames[f][k]} |-> FilterValues(f)[v]] :
                     k \in 1..Len(FilterNames[f]), v \in 1..4 } :
                 f \in 1..Len(FilterNames) }
    \cup UNION { { [n \in {FilterNames[f][k], FilterNames[f][j]} |->
                      IF n = FilterNames[f][k] THEN FilterValues(f)[v]
                      ELSE FilterValues(f)[w]] :
                     k \in 1..Len(FilterNames[f]), j \in 1..Len(FilterNames[f]),
                     v \in 1..4, w \in 1..4 } :
                 f \in 1..Len(FilterNames) }
    \cup UNION { { [n \in {FilterNames[f][1], FilterNames[g][1]} |->
                      IF n = FilterNames[f][1] THEN FilterValues(f)[v]
                      ELSE FilterValues(g)[w]] : v \in 1..2, w \in 1..2 } :
                 f \in 1..Len(FilterNames), g \in 1..Len(FilterNames) }

ExportRequest(params) ==
    [name |-> "export_books_excel", GET |-> params, qs |-> <<>>,
     wb |-> NoWorkbook, filename |-> <<>>]

FilterItemStatus == {"AVAILABLE", "LOANED"}

\* The export of a filtered book list: any catalogue of the book rows with
\* their copies, any request of FilterRequests.
InitExportFilters ==
    /\ now = 0
    /\ requests = [r \in RequestIds |-> NewRequest((r - 1) % 2)]
    /\ messages = NoMessage
    /\ users = [u \in UserIds |-> TRUE]
    /\ workers = NoWorkers
    /\ loans = <<>>
    /\ items \in [1..MaxCopies -> FilterItemStatus]
    /\ \E rows \in [BookIds -> BookRows], owner \in [1..MaxCopies -> BookIds] :
           books = Catalogue(rows, owner)
    /\ view \in {ExportRequest(g) : g \in FilterRequests}

NextExport == export_books_excel

SpecExportFilters == InitExportFilters /\ [][NextExport]_vars

\* Loan rows of the copies: loan l is due l days after 2024-12-30 and was
\* approved on that day; each copy has at most one BORROWED loan
ExportLoans ==
    { ls \in UNION { { [l \in 1..n |->
                          [request |-> 1, book_item |-> c[l][1],
                           status |-> c[l][2],
                           due_date |-> DaysAfter(<<2024, 12, 30>>, l),
                           returned_at |-> IF c[l][2] = "RETURNED" THEN 0
                                           ELSE NoDate,
                           approved_from |-> <<2024, 12, 30>>]] :
                       c \in [1..n -> (1..MaxCopies) \X LoanStatus] } :
                     n \in 0..MaxLoans } :
        \A i \in 1..MaxCopies :
            Cardinality({l \in 1..Len(ls) :
                ls[l].book_item = i /\ ls[l].status = "BORROWED"}) <= 1 }

IncludeItemsValues ==
    { <<"1">>, <<"TRUE">>, <<"Yes">>, <<" ", "1">>, <<"0">>, <<"no">>, <<>> }

ColumnsValues ==
    { <<"title", ",", "id">>,
      <<" ", "id", " ", ",", ",", "bogus", ",", " ", "title">>,
      <<",">>, <<" ">>, <<>>, <<"bogus">>, <<"id", ",", "ID">> }

\* request.GET with include_items, columns or an item_status filter
SheetRequests ==
    {<<>>}
    \cup { [n \in {"include_items"} |-> v] : v \in IncludeItemsValues }
    \cup { [n \in {"columns"} |-> w] : w \in ColumnsValues }
    \cup { [n \in {"include_items", "columns"} |->
              IF n = "columns" THEN w ELSE v] :
             v \in IncludeItemsValues, w \in ColumnsValues }
    \cup { [n \in {"include_items", "item_status"} |->
              IF n = "item_status" THEN w ELSE v] :
             v \in IncludeItemsValues, w \in {<<"available">>, <<"LOANED">>} }

\* The export with its sheets: the book rows in turn, with any copies and
\* any loans of the copies, any request of SheetRequests.
InitExportSheets ==
    /\ now = 0
    /\ requests = [r \in RequestIds |-> NewRequest((r - 1) % 2)]
    /\ messages = NoMessage
    /\ users = [u \in UserIds |-> TRUE]
    /\ workers = NoWorkers
    /\ loans \in ExportLoans
    /\ items \in [1..MaxCopies -> FilterItemStatus]
    /\ \E owner \in [1..MaxCopies -> BookIds] :
           books = Catalogue([b \in BookIds |->
                                 BookRowSeq[((b - 1) % Len(BookRowSeq)) + 1]],
                             owner)
    /\ view \in {ExportRequest(g) : g \in SheetRequests}

SpecExportSheets == InitExportSheets /\ [][NextExport]_vars

\* ------------------------------------------------------- book statistics
\* timezone.now() as a date: tick 0 falls on 2024-12-31
current_date == DaysAfter(<<2024, 12, 31>>, Date(now))

NoResponse == [status |-> 0]

\* an uncaught ValueError or OverflowError: the server answers 500
ServerError == [status |-> 500]

\* the book of a loan: the book of the copy it lends
BookOfLoan(l) ==
    CHOOSE b \in BookIds :
        \E k \in 1..Len(books[b].items) : books[b].items[k] = loans[l].book_item

\* a window that takes the loans of its last day's morrow too.
InWindow_closed(l, start, end) ==
    DateLE(start, loans[l].approved_from) /\ DateLE(loans[l].approved_from, end)

\* filter(approved_from__gte=start, approved_from__lt=end)
InWindow(l, start, end) ==
    DateLE(start, loans[l].approved_from) /\ DateLT(loans[l].approved_from, end)

\* max(1, min(12, month))
clamp_month(month) ==
    LET low == IF 12 < month THEN 12 ELSE month
    IN  IF 1 > low THEN 1 ELSE low

\* the statistics of the loans approved in [start, end)
book_stats(period, year, month, start, end) ==
    LET window == {l \in DOMAIN loans : InWindow(l, start, end)}
        last_day == DaysInMonth(year, month)
    IN  [status |-> 200,
         period |-> [type |-> IF period = <<"year">> THEN "year" ELSE "month",
                     year |-> year,
                     month |-> IF period # <<"year">> THEN <<month>> ELSE <<>>,
                     start |-> isoformat(start),
                     end_exclusive |-> isoformat(end)],
         top_books |->
             {[book_id |-> b,
               total |-> Cardinality({l \in window : BookOfLoan(l) = b})] :
                 b \in {BookOfLoan(l) : l \in window}},
         time_series |->
             IF period = <<"year">>
             THEN [type |-> "by_month",
                   values |-> [m \in 1..12 |-> Cardinality({l \in window :
                                  loans[l].approved_from[2] = m})]]
             ELSE [type |-> "by_day",
                   values |-> [d \in 1..last_day |-> Cardinality({l \in window :
                                  loans[l].approved_from[3] = d})]],
         status_distribution |->
             {[status |-> s,
               total |-> Cardinality({l \in window : loans[l].status = s})] :
                 s \in {loans[l].status : l \in window}}]

admin_book_stats_api ==
    /\ view.name = "admin_book_stats_api"
    /\ view.response = NoResponse
    /\ LET p == GetOr(view.GET, <<"period">>)
           period == lower(IF p # <<>> THEN p ELSE <<"month">>)
           year == IF "year" \in DOMAIN view.GET /\ int(view.GET["year"]) # <<>>
                   THEN int(view.GET["year"])[1] ELSE current_date[1]
           month == IF "month" \in DOMAIN view.GET /\ int(view.GET["month"]) # <<>>
                    THEN int(view.GET["month"])[1] ELSE current_date[2]
       IN  view' = [view EXCEPT !.response =
               IF period = <<"year">>
               THEN IF IsValidDate(year, 1, 1) /\ IsValidDate(year + 1, 1, 1)
                    THEN book_stats(period, year, month,
                                    <<year, 1, 1>>, <<year + 1, 1, 1>>)
                    ELSE ServerError
               ELSE LET m == clamp_month(month)
                    IN  IF /\ IsValidDate(year, m, 1)
                           /\ NextDay(<<year, m, DaysInMonth(year, m)>>) # <<>>
                        THEN book_stats(period, year, m, <<year, m, 1>>,
                                 NextDay(<<year, m, DaysInMonth(year, m)>>))
                        ELSE ServerError]
    /\ UNCHANGED <<now, requests, items, loans, messages, users, books, workers>>

PeriodValues == { <<"Year">>, <<"month">>, <<"week">>, <<>> }

YearValues ==
    { <<"2", "0", "2", "4">>, <<" ", "2", "0", "2", "5">>, <<"x">>, <<>>,
      <<"0">>, <<"9", "9", "9", "9">> }

MonthValues ==
    { <<"2">>, <<"1", "2">>, <<"1", "3">>, <<"0">>, <<"-", "5">>, <<"x">> }

\* request.GET of the statistics: period, year and month, each sent or not
StatsRequests ==
    UNION { { [n \in K |-> IF n = "period" THEN p
                           ELSE IF n = "year" THEN y ELSE m] :
                p \in PeriodValues, y \in YearValues, m \in MonthValues } :
            K \in SUBSET {"period", "year", "month"} }

StatsRequest(params) ==
    [name |-> "admin_book_stats_api", GET |-> params, response |-> NoResponse]

\* the days on which the loans were approved
ApprovalDates ==
    { <<2024, 2, 29>>, <<2024, 12, 1>>, <<2024, 12, 31>>, <<2025, 1, 1>> }

\* Loan rows with the day of approval: loan l lends copy l, or the last
\* copy when there are more loans than copies
StatsLoans ==
    UNION { { [l \in 1..n |->
                 [request |-> 1,
                  book_item |-> IF l <= MaxCopies THEN l ELSE MaxCopies,
                  status |-> c[l][2], due_date |-> NextDay(c[l][1]),
                  returned_at |-> IF c[l][2] = "RETURNED" THEN 0 ELSE NoDate,
                  approved_from |-> c[l][1]]] :
              c \in [1..n -> ApprovalDates \X LoanStatus] } :
            n \in 0..MaxLoans }

\* The statistics view: any loans of StatsLoans, any request of
\* StatsRequests, on the first or the last day of the clock.
InitBookStats ==
    /\ now \in {0, MaxNow}
    /\ requests = [r \in RequestIds |-> NewRequest((r - 1) % 2)]
    /\ messages = NoMessage
    /\ users = [u \in UserIds |-> TRUE]
    /\ workers = NoWorkers
    /\ loans \in StatsLoans
    /\ items = [i \in 1..MaxCopies |-> "LOANED"]
    /\ books = Catalogue([b \in BookIds |->
                             BookRowSeq[((b - 1) % Len(BookRowSeq)) + 1]],
                         [i \in 1..MaxCopies |-> ((i - 1) % NumBooks) + 1])
    /\ view \in {StatsRequest(g) : g \in StatsRequests}

NextBookStats == admin_book_stats_api

SpecBookStats == InitBookStats /\ [][NextBookStats]_vars

\* --------------------------------------------------------- recent activity
RecentLimit == 5
ActivityLimit == 10

\* _ago: the age of a timestamp as a text, a tick being twelve hours
ago(dt) ==
    LET hours == 12 * (now - dt)
    IN  IF hours = 0 THEN <<"0", "s ago">>
        ELSE IF hours < 24 THEN str(hours) \o <<"h ago">>
        ELSE str(hours \div 24) \o <<"d ago">>

\* order_by("-created_at"): the ids of the rows of a table, newest first;
\* the database orders rows of one timestamp by ascending or by descending id
NewestFirst(table, tie) ==
    LET Ahead(i) == {j \in DOMAIN table :
                        \/ table[j].created_at > table[i].created_at
                        \/ /\ table[j].created_at = table[i].created_at
                           /\ IF tie = "asc" THEN j < i ELSE j > i}
    IN  [p \in 1..Len(table) |->
            CHOOSE i \in DOMAIN table : Cardinality(Ahead(i)) = p - 1]

\* a slice that keeps every row of the table.
recent_all(table, tie) == NewestFirst(table, tie)

\* Model.objects.order_by("-created_at")[:5]
recent(table, tie) ==
    SubSeq(NewestFirst(table, tie), 1,
           IF Len(table) < RecentLimit THEN Len(table) ELSE RecentLimit)

\* list.sort(key=timestamp, reverse=True): a stable sort, newest first
sort_newest_first(activities) ==
    LET Ahead(i) == {j \in 1..Len(activities) :
                        \/ activities[j].timestamp > activities[i].timestamp
                        \/ /\ activities[j].timestamp = activities[i].timestamp
                           /\ j < i}
    IN  [p \in 1..Len(activities) |->
            activities[CHOOSE i \in 1..Len(activities) :
                           Cardinality(Ahead(i)) = p - 1]]

\* the activities of the rows ids of a table
activities_of(kind, table, ids) ==
    [k \in 1..Len(ids) |->
        [kind |-> kind, id |-> ids[k], timestamp |-> table[ids[k]].created_at,
         ago |-> ago(table[ids[k]].created_at)]]

admin_activity_api ==
    /\ view.name = "admin_activity_api"
    /\ view.response = NoResponse
    /\ \E tie \in {"asc", "desc"} :
         \E recent_requests \in {recent(requests, tie)},
            recent_books \in {recent(books, tie)},
            recent_loans \in {recent(loans, tie)} :
           \E activities \in
                  {activities_of("Borrow request", requests, recent_requests)
                   \o activities_of("New book", books, recent_books)
                   \o activities_of("Loan", loans, recent_loans)} :
             \E sorted \in {sort_newest_first(activities)} :
               view' = [view EXCEPT !.response =
                   [status |-> 200,
                    activities |-> SubSeq(sorted, 1,
                        IF Len(sorted) < ActivityLimit THEN Len(sorted)
                        ELSE ActivityLimit)]]
    /\ UNCHANGED <<now, requests, items, loans, messages, users, books, workers>>

\* the rows of a table with the ticks of their creation: no row is created
\* before a row of a smaller id; a table is empty, has one row or MaxRows
ActivityTables ==
    UNION { { [i \in 1..n |-> [created_at |-> t[i]]] :
              t \in {f \in [1..n -> 0..MaxNow] :
                        \A i, j \in 1..n : i < j => f[i] <= f[j]} } :
            n \in {0, 1, MaxRows} }

\* The activity feed: any tables of borrow requests, books and loans, read
\* at the last tick of the clock.
InitActivity ==
    /\ now = MaxNow
    /\ messages = NoMessage
    /\ users = [u \in UserIds |-> TRUE]
    /\ workers = NoWorkers
    /\ items = <<>>
    /\ requests \in ActivityTables
    /\ books \in ActivityTables
    /\ loans \in ActivityTables
    /\ view = [name |-> "admin_activity_api", response |-> NoResponse]

NextActivity == admin_activity_api

SpecActivity == InitActivity /\ [][NextActivity]_vars

\* Two admins act at once: admin1 approves and admin2 rejects, each with a
\* selection of the pending requests.
InitConcurrent ==
    /\ now = 0
    /\ requests = [r \in RequestIds |-> NewRequest((r - 1) % 2)]
    /\ items = <<>>
    /\ loans = <<>>
    /\ messages = NoMessage
    /\ users = [u \in UserIds |-> TRUE]
    /\ books = NoBooks
    /\ view = NoView
    /\ \E q1 \in Querysets, q2 \in Querysets, post \in PostData :
           workers = << Worker("approve_selected", "admin1", q1, <<>>),
                        Worker("reject_selected", "admin2", q2, post) >>

Call == \E w \in DOMAIN workers : action_call(w)
Update == \E w \in DOMAIN workers : action_update(w)
Message == \E w \in DOMAIN workers : action_message(w)

NextConcurrent == Tick \/ Call \/ Update \/ Message

SpecConcurrent == InitConcurrent /\ [][NextConcurrent]_vars

\* ------------------------------------------------------------------ claims

\* C1: a BorrowRequest changes status only from PENDING; a request that is
\* APPROVED, REJECTED, CANCELLED or EXPIRED never changes status again and
\* never returns to PENDING.
C1_DecidedStatusIsFinal ==
    [][\A r \in RequestIds :
          requests[r].status # "PENDING"
              => requests'[r].status = requests[r].status]_vars

\* C2: a BorrowRequest becomes EXPIRED only if, at the moment of the
\* transition, it is PENDING and its requested_to is strictly before current_date;
\* mark_selected_expired leaves every other selected request unchanged.
C2_ExpiredOnlyFromPastPending ==
    /\ [][\A r \in RequestIds :
             (requests[r].status # "EXPIRED" /\ requests'[r].status = "EXPIRED")
                 => /\ requests[r].status = "PENDING"
                    /\ requests[r].requested_to < Date(now)]_vars
    /\ [](\A q \in Querysets :
            ~ ENABLED
                /\ mark_selected_expired(q)
                /\ ~ \A r \in RequestIds :
                         IF /\ r \in q
                            /\ requests[r].status = "PENDING"
                            /\ requests[r].requested_to < Date(now)
                         THEN requests'[r] =
                                  [requests[r] EXCEPT !.status = "EXPIRED"]
                         ELSE requests'[r] = requests[r])

C4_ApprovalSpawnsLoans ==
    [][\A r \in RequestIds :
          (requests[r].status = "PENDING" /\ requests'[r].status = "APPROVED")
              => \E l \in DOMAIN loans' :
                     l \notin DOMAIN loans /\ loans'[l].request = r]_vars

\* C5: the lifecycle is ordered: a Loan exists only for an APPROVED request,
\* never for one that is PENDING, REJECTED, CANCELLED or EXPIRED, and at the
\* moment a Loan is created its request is APPROVED and its BookItem is
\* AVAILABLE.
C5_LoanOnlyForApprovedRequest ==
    /\ [](\A l \in DOMAIN loans :
            requests[loans[l].request].status = "APPROVED")
    /\ [][\A l \in DOMAIN loans' :
             l \notin DOMAIN loans
                 => /\ requests[loans'[l].request].status = "APPROVED"
                    /\ items[loans'[l].book_item] = "AVAILABLE"]_vars

\* C6: after any sequence of bulk admin actions and sample-data creation,
\* every BookItem, BorrowRequest and Loan status is one of its choices.
C6_StatusDomains ==
    /\ \A i \in DOMAIN items : items[i] \in BookItemStatus
    /\ \A r \in RequestIds : requests[r].status \in RequestStatus
    /\ \A l \in DOMAIN loans : loans[l].status \in LoanStatus

\* C6 witness: copies exist, loans were returned and marked overdue, and
\* requests were rejected and expired.
C6_Witness ==
    /\ items # <<>>
    /\ \E l \in DOMAIN loans : loans[l].status = "RETURNED"
    /\ \E l \in DOMAIN loans : loans[l].status = "OVERDUE"
    /\ \E r \in RequestIds : requests[r].status = "APPROVED"
    /\ \E r \in RequestIds : requests[r].status \in {"REJECTED", "EXPIRED"}

\* C7: approve_selected changes exactly the selected PENDING requests: each
\* becomes APPROVED with admin = the acting user, decision_at = now and an
\* empty rejection_reason; the reported count is the number changed; every
\* other request is left unchanged.
C7_ApproveChangesExactlySelectedPending ==
    \A u \in Admins, q \in Querysets :
        ~ ENABLED
            /\ approve_selected(u, q)
            /\ ~ /\ \A r \in RequestIds :
                       IF r \in q /\ requests[r].status = "PENDING"
                       THEN requests'[r] =
                                [status |-> "APPROVED", admin |-> u,
                                 decision_at |-> now,
                                 rejection_reason |-> <<>>,
                                 requested_to |-> requests[r].requested_to]
                       ELSE requests'[r] = requests[r]
                 /\ messages'.level = "success"
                 /\ messages'.count =
                       Cardinality({r \in RequestIds :
                                       requests'[r] # requests[r]})

\* C7 witness: an approval has just changed one request and left a request
\* that was already decided as it was.
C7_Witness ==
    /\ messages.text = "Approved"
    /\ messages.count = 1
    /\ \E r \in RequestIds : /\ requests[r].status = "APPROVED"
                              /\ requests[r].decision_at = now
                              /\ requests[r].admin = "admin2"
    /\ \E r \in RequestIds : /\ requests[r].status = "REJECTED"
                              /\ requests[r].admin = "admin1"

\* A submitted reason that is missing, empty or only whitespace.
IsBlankPost(post) ==
    \/ "rejection_reason" \notin DOMAIN post
    \/ \A k \in 1..Len(post.rejection_reason) :
           post.rejection_reason[k] = " "

\* C8: reject_selected requires a reason: when the submitted reason is
\* missing, empty or only whitespace, it reports an error and changes no
\* BorrowRequest.
C8_RejectWithoutReasonChangesNothing ==
    \A u \in Admins, q \in Querysets, p \in PostData :
        IsBlankPost(p)
            => ~ ENABLED
                   /\ reject_selected(u, q, p)
                   /\ ~ /\ messages'.level = "error"
                        /\ requests' = requests

\* C8 witness: the error was reported while a request is still PENDING.
C8_Witness ==
    /\ messages.level = "error"
    /\ \E r \in RequestIds : requests[r].status = "PENDING"

C10_OverdueOnlyPastDueBorrowed ==
    /\ [](\A q \in LoanQuerysets :
            ~ ENABLED
                /\ mark_overdue_due(q)
                /\ ~ /\ DOMAIN loans' = DOMAIN loans
                     /\ \A l \in DOMAIN loans :
                            IF /\ l \in q
                               /\ loans[l].status = "BORROWED"
                               /\ loans[l].due_date < Date(now)
                            THEN loans'[l] =
                                     [loans[l] EXCEPT !.status = "OVERDUE"]
                            ELSE loans'[l] = loans[l])
    /\ [][\A l \in DOMAIN loans' :
             loans'[l].status = "OVERDUE"
                 => /\ l \in DOMAIN loans
                    /\ \/ loans[l].status = "OVERDUE"
                       \/ /\ loans[l].status = "BORROWED"
                          /\ loans[l].due_date < Date(now)]_vars

\* C10 witness: one loan was marked OVERDUE while a loan due current_date is still
\* BORROWED.
C10_Witness ==
    /\ messages.text = "Overdue"
    /\ \E l \in DOMAIN loans : loans[l].status = "OVERDUE"
    /\ \E l \in DOMAIN loans : /\ loans[l].status = "BORROWED"
                                /\ loans[l].due_date = Date(now)

\* C11: deactivate_users never deactivates the user who runs it: the acting
\* user's is_active is unchanged, every other selected user ends inactive,
\* unselected users are unchanged, and the reported skipped count is 1
\* exactly when the acting user was selected and 0 otherwise.
C11_DeactivateSparesActingUser ==
    \A u \in UserIds, q \in UserQuerysets :
        ~ ENABLED
            /\ deactivate_users(u, q)
            /\ ~ /\ users'[u] = users[u]
                 /\ \A x \in q \ {u} : users'[x] = FALSE
                 /\ \A x \in UserIds \ q : users'[x] = users[x]
                 /\ messages'.skipped = IF u \in q THEN 1 ELSE 0

\* C11 witness: a deactivation that skipped the acting user and deactivated
\* another, with a third user left active.
C11_Witness ==
    /\ messages.text = "Deactivated"
    /\ messages.skipped = 1
    /\ messages.count = 1
    /\ Cardinality({u \in UserIds : ~users[u]}) = 1

\* what each filter of params asks of book b, by the claim's list of filters
MatchesFilters(b, params) ==
    LET q == strip(GetOr(params, FilterNames[1]))
        category == parse_int(GetOr(params, FilterNames[2]))
        author == parse_int(GetOr(params, FilterNames[3]))
        publisher == parse_int(GetOr(params, FilterNames[4]))
        y_from == parse_int(GetOr(params, FilterNames[5]))
        y_to == parse_int(GetOr(params, FilterNames[6]))
        language == strip(GetOr(params, FilterNames[7]))
        status == upper(strip(GetOr(params, FilterNames[8])))
        c_from == parse_date(strip(GetOr(params, FilterNames[9])))
        c_to == parse_date(strip(GetOr(params, FilterNames[10])))
    IN  /\ q # <<>> =>
               \E text \in {books[b].title, books[b].description, books[b].isbn13} :
                   contains(lower(text), lower(q))
        /\ category # <<>> => category[1] \in books[b].categories
        /\ author # <<>> => author[1] \in books[b].authors
        /\ publisher # <<>> => books[b].publisher = publisher
        /\ y_from # <<>> =>
               books[b].publish_year # <<>> /\ books[b].publish_year[1] >= y_from[1]
        /\ y_to # <<>> =>
               books[b].publish_year # <<>> /\ books[b].publish_year[1] <= y_to[1]
        /\ language # <<>> => lower(books[b].language_code) = lower(language)
        /\ (\E s \in BookItemStatus : status = <<s>>) =>
               \E k \in 1..Len(books[b].items) : <<items[books[b].items[k]]>> = status
        /\ c_from # <<>> => DateKey(books[b].created_at) >= DateKey(c_from[1])
        /\ c_to # <<>> => DateKey(books[b].created_at) <= DateKey(c_to[1])

\* C12: build_book_queryset returns exactly the books that satisfy every
\* supplied filter at once, each matching book exactly once; a filter whose
\* value is absent, empty or unparseable imposes no restriction.
C12_ExportReturnsExactlyMatchingBooks ==
    (view.name = "export_books_excel" /\ view.wb # NoWorkbook) =>
        \A b \in BookIds :
            Cardinality({k \in 1..Len(view.qs) : view.qs[k] = b})
                = IF MatchesFilters(b, view.GET) THEN 1 ELSE 0

\* C12 witness: an item_status filter matched a book through two of its
\* copies and left the other book out.
C12_Witness ==
    /\ view.name = "export_books_excel" /\ view.wb # NoWorkbook
    /\ "item_status" \in DOMAIN view.GET
    /\ Len(view.qs) = 1
    /\ \E i, j \in 1..Len(books[view.qs[1]].items) :
           /\ i # j
           /\ <<items[books[view.qs[1]].items[i]]>> = upper(strip(view.GET["item_status"]))
           /\ <<items[books[view.qs[1]].items[j]]>> = upper(strip(view.GET["item_status"]))

ExportDone == view.name = "export_books_excel" /\ view.wb # NoWorkbook

HasSheet(name) == \E k \in 1..Len(view.wb.sheets) : view.wb.sheets[k] = name

\* C13: the workbook has an 'Items' sheet exactly when include_items is one
\* of '1', 'true', 'yes' compared case-insensitively; the sheet then has one
\* header row and exactly one row for every copy of every exported book,
\* whatever the copy's status, and no row for a copy of another book.
C13_ItemsSheetListsEveryCopy ==
    ExportDone =>
        LET wanted == /\ "include_items" \in DOMAIN view.GET
                      /\ \E w \in {"1", "true", "yes"} :
                             lower(view.GET["include_items"]) = <<w>>
            sheet == view.wb.Items
            Exported(b) == \E k \in 1..Len(view.qs) : view.qs[k] = b
        IN  /\ HasSheet("Items") <=> wanted
            /\ wanted =>
                 /\ sheet[1] = item_headers
                 /\ \A b \in BookIds, i \in DOMAIN items :
                        Cardinality({r \in 2..Len(sheet) :
                            sheet[r][1] = str(b) /\ sheet[r][3] = <<"BK">> \o str(i)})
                          = IF Exported(b)
                               /\ \E k \in 1..Len(books[b].items) : books[b].items[k] = i
                            THEN 1 ELSE 0
                 /\ Len(sheet) = 1 + Cardinality({i \in DOMAIN items :
                        \E b \in BookIds :
                            /\ Exported(b)
                            /\ \E k \in 1..Len(books[b].items) : books[b].items[k] = i})

\* C13 witness: with an item_status filter that one copy of an exported
\* book does not meet, the Items sheet still lists that copy.
C13_Witness ==
    /\ ExportDone
    /\ HasSheet("Items")
    /\ "item_status" \in DOMAIN view.GET
    /\ Len(view.qs) = 1
    /\ \E r \in 2..Len(view.wb.Items) :
           <<view.wb.Items[r][4][1]>> # upper(view.GET["item_status"])

\* C14: in the Items sheet 'Currently Loaned' is 'Yes' exactly when the copy
\* has an active loan, a loan not yet returned, and then 'Due Date' and
\* 'Loan Status' are the due date and status of that loan; otherwise
\* 'Currently Loaned' is 'No' and both fields are empty.
C14_LoanDetailOfUnreturnedLoan ==
    (ExportDone /\ HasSheet("Items")) =>
        \A r \in 2..Len(view.wb.Items) :
            LET row == view.wb.Items[r]
                active == {l \in DOMAIN loans :
                              /\ <<"BK">> \o str(loans[l].book_item) = row[3]
                              /\ loans[l].status # "RETURNED"}
            IN  IF active # {}
                THEN /\ row[7] = <<"Yes">>
                     /\ \E l \in active :
                            /\ row[8] = isoformat(loans[l].due_date)
                            /\ row[9] = get_status_display(loans[l].status)
                ELSE row[7] = <<"No">> /\ row[8] = <<>> /\ row[9] = <<>>

\* the names a 'columns' text asks for: the pieces between the commas,
\* trimmed, the empty ones dropped
RECURSIVE NamesIn(_)
NamesIn(text) ==
    IF text = <<>> THEN <<>>
    ELSE LET cut == IF \E k \in 1..Len(text) : text[k] = ","
                    THEN CHOOSE k \in 1..Len(text) :
                             text[k] = "," /\ \A j \in 1..(k - 1) : text[j] # ","
                    ELSE Len(text) + 1
             name == strip(SubSeq(text, 1, cut - 1))
             rest == NamesIn(SubSeq(text, cut + 1, Len(text)))
         IN  IF name = <<>> THEN rest ELSE <<name>> \o rest

KnownColumns ==
    {DEFAULT_BOOK_COLUMNS[k] : k \in 1..Len(DEFAULT_BOOK_COLUMNS)}
        \cup {<<"authors_count">>, <<"categories_count">>}

\* C15: the Books sheet has one cell per requested column name in the
\* requested order, names trimmed and empty names dropped, an unknown name
\* giving an empty cell in every data row; without names the columns are
\* DEFAULT_BOOK_COLUMNS; the sheet has exactly one data row per book of the
\* queryset.
C15_BooksSheetFollowsColumns ==
    ExportDone =>
        LET names == IF "columns" \in DOMAIN view.GET
                     THEN NamesIn(view.GET["columns"]) ELSE <<>>
            cols == IF names # <<>> THEN names ELSE DEFAULT_BOOK_COLUMNS
            sheet == view.wb.Books
        IN  /\ Len(sheet) = 1 + Len(view.qs)
            /\ \A r \in 1..Len(sheet) : Len(sheet[r]) = Len(cols)
            /\ \A c \in 1..Len(cols) : sheet[1][c] = header(cols[c])
            /\ \A r \in 1..Len(view.qs), c \in 1..Len(cols) :
                   /\ cols[c] \notin KnownColumns => sheet[r + 1][c] = <<>>
                   /\ cols[c] = <<"id">> => sheet[r + 1][c] = str(view.qs[r])
                   /\ cols[c] = <<"title">> =>
                          sheet[r + 1][c] = books[view.qs[r]].title

\* C15 witness: a 'columns' text with blanks, an empty name and an unknown
\* name gave three columns, the unknown one empty in a data row.
C15_Witness ==
    /\ ExportDone
    /\ "columns" \in DOMAIN view.GET
    /\ Len(view.wb.Books) > 1
    /\ Len(view.wb.Books[1]) = 3
    /\ view.wb.Books[1][2] = <<"Bogus">>
    /\ view.wb.Books[2][2] = <<>>
    /\ view.wb.Books[2][1] # <<>>

StatsDone == view.name = "admin_book_stats_api" /\ view.response # NoResponse

\* the number a parameter carries, if it is sent and is an integer
SentInteger(name) ==
    IF name \in DOMAIN view.GET THEN int(view.GET[name]) ELSE <<>>

\* C16: admin_book_stats_api answers any query parameters with a JSON
\* response, for every integer year: the period is 'year' when the parameter
\* says so in any case and 'month' otherwise, a missing or non-integer year
\* is the current year, a missing or non-integer month the current month,
\* and an integer month is clamped into 1..12.
C16_StatsAcceptAnyParameters ==
    StatsDone =>
        LET isYear == /\ "period" \in DOMAIN view.GET
                      /\ lower(view.GET["period"]) = <<"year">>
            year == IF SentInteger("year") # <<>> THEN SentInteger("year")[1]
                    ELSE current_date[1]
            month == IF SentInteger("month") # <<>> THEN SentInteger("month")[1]
                     ELSE current_date[2]
        IN  /\ view.response.status = 200
            /\ view.response.period.type = IF isYear THEN "year" ELSE "month"
            /\ view.response.period.year = year
            /\ ~isYear =>
                   view.response.period.month =
                       IF month < 1 THEN <<1>>
                       ELSE IF month > 12 THEN <<12>> ELSE <<month>>

\* C17: the reporting window is [start, end_exclusive): for period 'year'
\* January 1 of the year to January 1 of the next year, with a null month;
\* for period 'month' the first day of the month to the first day of the
\* following month, across December too; every loan-based statistic counts
\* exactly the loans whose approved_from lies in the window.
C17_StatsWindowIsHalfOpen ==
    (StatsDone /\ view.response.status = 200) =>
        LET r == view.response
            y == r.period.year
            first == IF r.period.type = "year" THEN <<y, 1, 1>>
                     ELSE <<y, r.period.month[1], 1>>
            next == IF r.period.type = "year" THEN <<y + 1, 1, 1>>
                    ELSE IF r.period.month[1] = 12 THEN <<y + 1, 1, 1>>
                    ELSE <<y, r.period.month[1] + 1, 1>>
            inside == {l \in DOMAIN loans :
                          /\ DateKey(first) <= DateKey(loans[l].approved_from)
                          /\ DateKey(loans[l].approved_from) < DateKey(next)}
        IN  /\ r.period.type = "year" => r.period.month = <<>>
            /\ r.period.start = isoformat(first)
            /\ r.period.end_exclusive = isoformat(next)
            /\ \A s \in LoanStatus :
                   LET n == Cardinality({l \in inside : loans[l].status = s})
                   IN  IF n = 0 THEN \A e \in r.status_distribution : e.status # s
                       ELSE [status |-> s, total |-> n] \in r.status_distribution
            /\ \A b \in BookIds :
                   LET n == Cardinality({l \in inside : BookOfLoan(l) = b})
                   IN  IF n = 0 THEN \A e \in r.top_books : e.book_id # b
                       ELSE [book_id |-> b, total |-> n] \in r.top_books
            /\ \A k \in DOMAIN r.time_series.values :
                   r.time_series.values[k] =
                       Cardinality({l \in inside :
                           loans[l].approved_from[
                               IF r.period.type = "year" THEN 2 ELSE 3] = k})

\* C17 witness: the window of December 2024 counted a loan approved on
\* December 31 and left out one approved on January 1.
C17_Witness ==
    /\ StatsDone /\ view.response.status = 200
    /\ view.response.period.type = "month"
    /\ view.response.period.end_exclusive = isoformat(<<2025, 1, 1>>)
    /\ \E l \in DOMAIN loans : loans[l].approved_from = <<2025, 1, 1>>
    /\ \E l \in DOMAIN loans : loans[l].approved_from = <<2024, 12, 31>>
    /\ view.response.time_series.values[31] = 1
    /\ view.response.time_series.values[1] = 0

ActivityDone == view.name = "admin_activity_api" /\ view.response # NoResponse

\* the table an activity of a kind comes from
TableOf(kind) ==
    IF kind = "Borrow request" THEN requests
    ELSE IF kind = "New book" THEN books ELSE loans

\* C18: admin_activity_api returns at most 10 activities, newest first,
\* each of them one of the 5 most recently created rows of its kind (borrow
\* requests, books, loans); no returned activity is older than a row of the
\* same kind that is left out.
C18_ActivityIsRecentAndSorted ==
    ActivityDone =>
        LET acts == view.response.activities
            Listed(kind, i) ==
                \E k \in 1..Len(acts) : acts[k].kind = kind /\ acts[k].id = i
        IN  /\ Len(acts) <= 10
            /\ \A j, k \in 1..Len(acts) :
                   j < k => acts[j].timestamp >= acts[k].timestamp
            /\ \A j, k \in 1..Len(acts) :
                   (acts[j].kind = acts[k].kind /\ acts[j].id = acts[k].id) => j = k
            /\ \A k \in 1..Len(acts) :
                   LET table == TableOf(acts[k].kind)
                   IN  /\ acts[k].id \in DOMAIN table
                       /\ acts[k].timestamp = table[acts[k].id].created_at
                       /\ Cardinality({i \in DOMAIN table :
                              table[i].created_at > acts[k].timestamp}) < 5
                       /\ \A i \in DOMAIN table :
                              ~Listed(acts[k].kind, i) =>
                                  table[i].created_at <= acts[k].timestamp

\* C18 witness: ten activities are returned while a borrow request older
\* than every returned one and a loan among the five newest are left out.
C18_Witness ==
    /\ ActivityDone
    /\ Len(view.response.activities) = 10
    /\ Len(requests) > 5
    /\ \E k \in 1..10 : view.response.activities[k].kind = "Borrow request"
    /\ Cardinality({k \in 1..10 : view.response.activities[k].kind = "Loan"}) \in 1..4
    /\ Len(loans) > 5

\* C19: when approve_selected and reject_selected (with a reason) run
\* concurrently from two admins on the same PENDING request, exactly one of
\* them takes effect: the request ends APPROVED or REJECTED, its admin,
\* decision_at and rejection_reason all come from the action that won, and
\* the other action does not count that request as updated.
C19_ConcurrentDecisionHasOneWinner ==
    (/\ Len(workers) = 2
     /\ workers[1].pc = "done" /\ workers[2].pc = "done"
     /\ workers[2].message.level = "success") =>
        /\ \A r \in workers[1].queryset \cap workers[2].queryset :
               \E w \in {1, 2} :
                   /\ requests[r].status = IF workers[w].action = "approve_selected"
                                           THEN "APPROVED" ELSE "REJECTED"
                   /\ requests[r].admin = workers[w].user
                   /\ requests[r].decision_at = workers[w].decision_at
                   /\ requests[r].rejection_reason = workers[w].reason
        /\ workers[1].message.count =
               Cardinality({r \in workers[1].queryset :
                               requests[r].status = "APPROVED"})
        /\ workers[2].message.count =
               Cardinality({r \in workers[2].queryset :
                               requests[r].status = "REJECTED"})

\* C19 witness: both admins selected request 1; the rejection won and the
\* approval, called at another time, reported no request updated.
C19_Witness ==
    /\ Len(workers) = 2
    /\ workers[1].pc = "done" /\ workers[2].pc = "done"
    /\ workers[1].queryset = {1} /\ workers[2].queryset = {1}
    /\ requests[1].status = "REJECTED"
    /\ requests[1].admin = "admin2"
    /\ workers[1].message.count = 0
    /\ workers[2].message.count = 1
    /\ workers[1].decision_at # workers[2].decision_at

\* C20: RETURNED is terminal for a loan under the loan actions: a loan that
\* is RETURNED stays RETURNED through mark_as_returned and mark_overdue_due,
\* and every loan selected by mark_as_returned, whether BORROWED, OVERDUE or
\* already RETURNED, ends RETURNED with returned_at the date of that action.
C20_ReturnedIsTerminal ==
    /\ [](\A q \in LoanQuerysets :
            ~ ENABLED
                /\ mark_as_returned(q)
                /\ ~ \A l \in q : /\ loans'[l].status = "RETURNED"
                                  /\ loans'[l].returned_at = Date(now))
    /\ [][\A l \in DOMAIN loans :
              loans[l].status = "RETURNED" => loans'[l].status = "RETURNED"]_vars

\* C20 witness: a loan past due is RETURNED, returned on the second day,
\* after mark_overdue_due has run on the loans.
C20_Witness ==
    /\ messages.text \in {"Overdue", "NoneOverdue"}
    /\ \E l \in DOMAIN loans :
           /\ loans[l].status = "RETURNED"
           /\ loans[l].returned_at = 1
           /\ loans[l].due_date < Date(now)

\* C21: the loan actions mark_as_returned and mark_overdue_due and the
\* request actions approve_selected, reject_selected and
\* mark_selected_expired leave every BookItem's status unchanged; in
\* particular the copy of a loan marked RETURNED keeps the status it had
\* before the action.
C21_ActionsLeaveItemStatus ==
    /\ ~ ENABLED
          /\ Approve \/ Reject \/ Expire \/ Returned \/ Overdue
          /\ items' # items
    /\ \A q \in LoanQuerysets :
           ~ ENABLED
               /\ mark_as_returned(q)
               /\ \E l \in q : /\ loans'[l].status = "RETURNED"
                                /\ items'[loans[l].book_item]
                                       # items[loans[l].book_item]

\* C21 witness: a loan has been marked RETURNED and its copy is still
\* LOANED, while a request has been rejected and another loan is OVERDUE.
C21_Witness ==
    /\ messages.text = "Returned"
    /\ \E l \in DOMAIN loans :
           /\ loans[l].status = "RETURNED"
           /\ items[loans[l].book_item] = "LOANED"
    /\ \E l \in DOMAIN loans : loans[l].status = "OVERDUE"
    /\ \E r \in RequestIds : requests[r].status = "REJECTED"

====
